---- MODULE Spec2Model ----
(***************************************************************************)
(* A model of kirimase's utility layer (utils.ts) and of the hello-world   *)
(* generator: the config store kept in kirimase.config.json, the package   *)
(* installer and its command runner, the shadcn-ui component installer,    *)
(* the file generator and the analytics reporter.                          *)
(*                                                                         *)
(* JavaScript values are tagged tuples of strings, so that values of       *)
(* different JavaScript types can be compared:                             *)
(*   undefined  <<"undefined">>        null   <<"null">>                   *)
(*   true/false <<"bool", "true">>     "s"    <<"str", "s">>               *)
(*   ["a","b"]  <<"arr", "a", "b">>                                        *)
(* A JavaScript object is a function from its own keys to such values.     *)
(***************************************************************************)
EXTENDS Integers, Sequences, FiniteSets, TLC

VARIABLES
  fs,        \* the file system: path -> [exists, content]
  lastOp,    \* the config-store operation that ran last, and whether it threw
  created,   \* history: createConfigFile has run
  written,   \* history: per config key, the value last passed to create/update
  appended,  \* history: since creation only addPackageToConfig and
             \* updateConfigFileAfterUpdate have run
  updates,   \* history: updateConfigFile calls since creation: "none",
             \* "one" or "more"
  inst,      \* the running installPackages call: [pc, regular, dev, pmType]
  shad,      \* the running installShadcnUIComponents call: [pc, install, pm]
  calls,     \* the runCommand invocations of the running call, in order
  spawned,   \* the execa invocations of the running call, with exit codes
  console,   \* the errors the running call has logged
  gen,       \* the generator: its last call, calls per name, successes logged
  ev,        \* the running sendEvent call: [pc, event]
  posts      \* the POST requests the running sendEvent call has made

storeVars == <<lastOp, created, written, appended, updates>>
instVars  == <<inst, shad, calls, spawned, console>>
sideVars  == <<gen, ev, posts>>
vars      == <<fs, storeVars, instVars, sideVars>>

----------------------------------------------------------------------------
(* Bounds *)

MaxPackages == 2     \* longest packages array the model builds
MaxStrLen   == 3     \* longest package-list string passed to installPackages
MaxComponents == 2   \* most components passed to installShadcnUIComponents
MaxCalls    == 3     \* most createHelloFile calls a run makes

----------------------------------------------------------------------------
(* JavaScript values *)

Undefined == <<"undefined">>
Null      == <<"null">>
JTrue     == <<"bool", "true">>
JFalse    == <<"bool", "false">>
Str(s)    == <<"str", s>>
Arr(seq)  == <<"arr">> \o seq

IsArr(v)    == v[1] = "arr"
Elems(v)    == Tail(v)
EmptyObj    == << >>

\* obj[k] in JavaScript: undefined when obj has no own key k
Get(obj, k) == IF k \in DOMAIN obj THEN obj[k] ELSE Undefined

\* the truthiness JavaScript's ?: and if test
Truthy(v) == v \notin {Undefined, Null, JFalse, Str("")}

\* {...a, ...b}
Spread(a, b) ==
  [k \in (DOMAIN a) \cup (DOMAIN b) |-> IF k \in DOMAIN b THEN b[k] ELSE a[k]]

\* Array.prototype.includes
Includes(arr, s) == \E i \in 1..Len(Elems(arr)) : Elems(arr)[i] = s

----------------------------------------------------------------------------
(* JSON text: the sequence of the <<key, value>> members the text holds *)

ConfigKeys == {"hasSrc", "packages", "orm", "auth", "analytics",
               "preferredPackageManager"}
KeyOrder   == <<"hasSrc", "packages", "orm", "auth", "analytics",
                "preferredPackageManager", "rootPath">>

RECURSIVE Members(_, _)
Members(obj, i) ==
  IF i > Len(KeyOrder) THEN << >>
  ELSE LET k == KeyOrder[i] IN
       IF k \in DOMAIN obj /\ obj[k] # Undefined
         THEN << <<k, obj[k]>> >> \o Members(obj, i + 1)
         ELSE Members(obj, i + 1)

\* JSON.stringify(obj, null, 2): a member whose value is undefined is left out
JSONstringify(obj) == Members(obj, 1)

\* JSON.parse(text): for a key the text repeats, the last member wins
JSONparse(text) ==
  [k \in {text[i][1] : i \in 1..Len(text)} |->
     text[CHOOSE i \in 1..Len(text) :
            /\ text[i][1] = k
            /\ \A j \in (i + 1)..Len(text) : text[j][1] # k][2]]

----------------------------------------------------------------------------
(* File I/O helpers *)

ConfigPath == "kirimase.config.json"
Components == {"button", "card"}
uiPath(prefix, component) == prefix \o "components/ui/" \o component \o ".tsx"
Names      == {"Hello", "Banner", "Card"}
\* formatFilePath(shared.misc.element + "/" + answer + ".tsx", {prefix: "rootPath"})
layoutPath(answer) == "misc.element/" \o answer \o ".tsx"
Paths      == {ConfigPath}
                \cup {uiPath(pre, c) : pre \in {"src/", ""}, c \in Components}
                \cup {layoutPath(a) : a \in Names}
NoFile     == [exists |-> FALSE, content |-> << >>]

existsSync(f, p) == f[p].exists

\* createFile(filePath, content): mkdir -p of the parent, then writeFileSync
createFile(f, p, content) ==
  [f EXCEPT ![p] = [exists |-> TRUE, content |-> content]]

\* replaceFile(filePath, content, log): the same write
replaceFile(f, p, content) ==
  [f EXCEPT ![p] = [exists |-> TRUE, content |-> content]]

----------------------------------------------------------------------------
(* Config store *)

\* a readConfigFile that derives rootPath from the presence of hasSrc
readConfigFile_hasKey(f) ==
  IF ~existsSync(f, ConfigPath)
    THEN [null |-> TRUE, obj |-> EmptyObj]
    ELSE LET config   == JSONparse(f[ConfigPath].content)
             rootPath == IF "hasSrc" \in DOMAIN config THEN Str("src/")
                                                       ELSE Str("")
         IN [null |-> FALSE, obj |-> Spread(config, [rootPath |-> rootPath])]

\* a readConfigFile that spreads the parsed config over rootPath
readConfigFile_fileWins(f) ==
  IF ~existsSync(f, ConfigPath)
    THEN [null |-> TRUE, obj |-> EmptyObj]
    ELSE LET config   == JSONparse(f[ConfigPath].content)
             rootPath == IF Truthy(Get(config, "hasSrc")) THEN Str("src/")
                                                          ELSE Str("")
         IN [null |-> FALSE, obj |-> Spread([rootPath |-> rootPath], config)]

\* readConfigFile(): null without a file; otherwise the parsed config with
\* rootPath spread over it.  The result is [null, obj]; obj is {} when null.
readConfigFile(f) ==
  IF ~existsSync(f, ConfigPath)
    THEN [null |-> TRUE, obj |-> EmptyObj]
    ELSE LET config   == JSONparse(f[ConfigPath].content)
             rootPath == IF Truthy(Get(config, "hasSrc")) THEN Str("src/")
                                                          ELSE Str("")
         IN [null |-> FALSE, obj |-> Spread(config, [rootPath |-> rootPath])]

\* createConfigFile(options)
createConfigFile(f, options) ==
  createFile(f, ConfigPath, JSONstringify(options))

\* an updateConfigFile that merges the other way round: {...options, ...config}
updateConfigFile_configWins(f, options) ==
  LET config    == readConfigFile(f)
      newConfig == Spread(options, config.obj)
  IN replaceFile(f, ConfigPath, JSONstringify(newConfig))

\* updateConfigFile(options): {...config, ...options}; spreading null adds nothing
updateConfigFile(f, options) ==
  LET config    == readConfigFile(f)
      newConfig == Spread(config.obj, options)
  IN replaceFile(f, ConfigPath, JSONstringify(newConfig))

\* config?.packages cannot be spread: no config, no packages key, or null
addPackageThrows(f) ==
  LET config == readConfigFile(f) IN
  config.null \/ ~IsArr(Get(config.obj, "packages"))

\* an addPackageToConfig that puts the new package first
addPackageToConfig_prepend(f, packageName) ==
  LET config == readConfigFile(f) IN
  updateConfigFile(f,
    [packages |-> Arr(<<packageName>> \o Elems(config.obj.packages))])

\* addPackageToConfig(packageName), when it does not throw
addPackageToConfig(f, packageName) ==
  LET config == readConfigFile(f) IN
  updateConfigFile(f,
    [packages |-> Arr(Append(Elems(config.obj.packages), packageName))])

\* updateConfigFileAfterUpdate(): destructuring null throws, and so does
\* packages.includes when the backfill branch runs without a packages array
afterUpdateBackfills(f) ==
  LET c == readConfigFile(f).obj IN
  Get(c, "orm") = Undefined \/ Get(c, "auth") = Undefined

afterUpdateThrows(f) ==
  \/ readConfigFile(f).null
  \/ /\ afterUpdateBackfills(f)
     /\ ~IsArr(Get(readConfigFile(f).obj, "packages"))

afterUpdateOptions(f) ==
  LET packages    == readConfigFile(f).obj.packages
      updatedOrm  == IF Includes(packages, "drizzle") THEN Str("drizzle")
                                                      ELSE Null
      updatedAuth == IF Includes(packages, "next-auth") THEN Str("next-auth")
                                                        ELSE Null
  IN [orm |-> updatedOrm, auth |-> updatedAuth]

updateConfigFileAfterUpdate(f) ==
  IF afterUpdateBackfills(f) THEN updateConfigFile(f, afterUpdateOptions(f))
                             ELSE f

----------------------------------------------------------------------------
(* Inputs of the config store *)

PackageIds == {"drizzle", "next-auth"}

RECURSIVE SeqsUpTo(_, _)
SeqsUpTo(S, n) ==
  IF n = 0 THEN {<< >>}
  ELSE LET shorter == SeqsUpTo(S, n - 1) IN
       shorter \cup {Append(s, x) : s \in shorter, x \in S}

NoDup(seq) == \A i, j \in 1..Len(seq) : seq[i] = seq[j] => i = j

PackageLists == {Arr(s) : s \in SeqsUpTo(PackageIds, MaxPackages)}

StoreKeys == {"hasSrc", "packages", "orm", "auth"}

ValuesOf(k) ==
  CASE k = "hasSrc"   -> {Undefined, JTrue, JFalse}
    [] k = "packages" -> {Undefined} \cup PackageLists
    [] k = "orm"      -> {Undefined, Null, Str("drizzle"), Str("prisma")}
    [] k = "auth"     -> {Undefined, Null, Str("next-auth")}
    [] k = "analytics" -> {Undefined, JTrue, JFalse}
    [] k = "preferredPackageManager" -> {Str("npm"), Str("pnpm")}

\* the objects over the keys K, each key holding one of its values
ObjectsOver(K) ==
  {o \in [K -> UNION {ValuesOf(k) : k \in K}] : \A k \in K : o[k] \in ValuesOf(k)}

\* what init passes to createConfigFile: every field, packages an array
\* without repeats
ConfigOptions ==
  {o \in ObjectsOver(StoreKeys) :
     IsArr(o.packages) /\ NoDup(Elems(o.packages))}

\* what callers pass to updateConfigFile: one field, or two of the scalar ones
UpdateOptions ==
  UNION {ObjectsOver(K) :
           K \in {S \in SUBSET StoreKeys :
                    \/ Cardinality(S) = 1
                    \/ Cardinality(S) = 2 /\ "packages" \notin S}}

\* per key, the value last passed in: options' value for its keys
LastWrite(w, options) ==
  [k \in ConfigKeys |-> IF k \in DOMAIN options THEN options[k] ELSE w[k]]

NothingWritten == [k \in ConfigKeys |-> Undefined]

----------------------------------------------------------------------------
(* Config store: actions *)

Op(name, threw) == [op |-> name, threw |-> threw]

Counted(n) == IF n = "none" THEN "one" ELSE "more"

CreateConfigFile(options) ==
  /\ fs' = createConfigFile(fs, options)
  /\ lastOp' = Op("createConfigFile", FALSE)
  /\ created' = TRUE
  /\ written' = LastWrite(NothingWritten, options)
  /\ appended' = TRUE
  /\ updates' = "none"
  /\ UNCHANGED <<instVars, sideVars>>

UpdateConfigFile(options) ==
  /\ fs' = updateConfigFile(fs, options)
  /\ lastOp' = Op("updateConfigFile", FALSE)
  /\ written' = LastWrite(written, options)
  /\ appended' = FALSE
  /\ updates' = IF created THEN Counted(updates) ELSE updates
  /\ UNCHANGED <<created, instVars, sideVars>>

AddPackageToConfig(packageName) ==
  /\ ~addPackageThrows(fs)
  /\ Len(Elems(readConfigFile(fs).obj.packages)) < MaxPackages
  /\ fs' = addPackageToConfig(fs, packageName)
  /\ lastOp' = Op("addPackageToConfig", FALSE)
  /\ written' = LastWrite(written,
       [packages |-> Arr(Append(Elems(readConfigFile(fs).obj.packages),
                                packageName))])
  /\ UNCHANGED <<created, appended, updates, instVars, sideVars>>

AddPackageToConfigThrows ==
  /\ addPackageThrows(fs)
  /\ lastOp' = Op("addPackageToConfig", TRUE)
  /\ UNCHANGED <<fs, created, written, appended, updates, instVars, sideVars>>

UpdateConfigFileAfterUpdate ==
  /\ ~afterUpdateThrows(fs)
  /\ fs' = updateConfigFileAfterUpdate(fs)
  /\ lastOp' = Op("updateConfigFileAfterUpdate", FALSE)
  /\ written' = IF afterUpdateBackfills(fs)
                  THEN LastWrite(written, afterUpdateOptions(fs))
                  ELSE written
  /\ UNCHANGED <<created, appended, updates, instVars, sideVars>>

UpdateConfigFileAfterUpdateThrows ==
  /\ afterUpdateThrows(fs)
  /\ lastOp' = Op("updateConfigFileAfterUpdate", TRUE)
  /\ UNCHANGED <<fs, created, written, appended, updates, instVars, sideVars>>


----------------------------------------------------------------------------
(* Command runner and package installer.  A string handed to split is the   *)
(* sequence of its characters.                                             *)

Chars == {"a", "b", " "}

\* String.prototype.split(" "): the pieces between the spaces, empty ones too
RECURSIVE split(_)
split(str) ==
  IF \A i \in 1..Len(str) : str[i] # " " THEN <<str>>
  ELSE LET i == CHOOSE n \in 1..Len(str) :
                  str[n] = " " /\ \A m \in 1..(n - 1) : str[m] # " "
       IN <<SubSeq(str, 1, i - 1)>> \o split(SubSeq(str, i + 1, Len(str)))

PMTypes == {"npm", "yarn", "pnpm", "bun"}

install == <<"i", "n", "s", "t", "a", "l", "l">>
add     == <<"a", "d", "d">>
dashD   == <<"-", "D">>

\* const installCommand = pmType === "npm" ? "install" : "add"
installCommand_swapped(pmType) == IF pmType = "npm" THEN add ELSE install
installCommand(pmType) == IF pmType = "npm" THEN install ELSE add

\* runCommand's formattedArgs: args.filter((a) => a !== "")
formattedArgs(args) == SelectSeq(args, LAMBDA a : a # << >>)

\* the arguments installPackages hands to runCommand
regularArgs(i) == <<installCommand(i.pmType)>> \o split(i.regular)
devArgs(i)     == <<installCommand(i.pmType), dashD>> \o split(i.dev)

ExitCodes == {0, 1}

InstIdle == [pc |-> "idle", regular |-> << >>, dev |-> << >>, pmType |-> "npm"]
ShadIdle == [pc |-> "idle", install |-> << >>, pm |-> Undefined]

\* one function runs at a time
NothingRunning == inst.pc = "idle" /\ shad.pc = "idle" /\ ev.pc = "idle"

\* the catch clause of installPackages: console.error, then the function ends
installPackagesCatch_rethrow(i) == [i EXCEPT !.pc = "threw"]
installPackagesCatch(i) == [i EXCEPT !.pc = "returned"]

\* installPackages(packages, pmType) is called: up to the first if
InstallPackages(packages, pmType) ==
  /\ NothingRunning
  /\ inst' = [pc |-> "regular", regular |-> packages.regular,
              dev |-> packages.dev, pmType |-> pmType]
  /\ shad' = ShadIdle
  /\ calls' = << >>
  /\ spawned' = << >>
  /\ console' = << >>
  /\ UNCHANGED <<fs, storeVars, sideVars>>

\* runCommand(command, args): execa with the non-empty arguments; a non-zero
\* exit is thrown as an Error
RunCommand(command, args, code) ==
  /\ calls' = Append(calls, [command |-> command, args |-> args])
  /\ spawned' = Append(spawned, [command |-> command,
                                 args |-> formattedArgs(args), code |-> code])

\* a regular install whose failure is swallowed on the spot
afterRegular_continue(code) == "dev"

\* where installPackages goes after the regular runCommand: on to the dev
\* list, or, runCommand having thrown inside the one try block, to the catch
afterRegular(code) == IF code = 0 THEN "dev" ELSE "catch"

\* if (packages.regular) await runCommand(pmType, [installCommand, ...])
InstallRegular(code) ==
  /\ inst.pc = "regular"
  /\ inst.regular # << >>
  /\ RunCommand(inst.pmType, regularArgs(inst), code)
  /\ inst' = [inst EXCEPT !.pc = afterRegular(code)]
  /\ UNCHANGED <<fs, storeVars, sideVars, shad, console>>

SkipRegular ==
  /\ inst.pc = "regular"
  /\ inst.regular = << >>
  /\ inst' = [inst EXCEPT !.pc = "dev"]
  /\ UNCHANGED <<fs, storeVars, sideVars, shad, calls, spawned, console>>

\* if (packages.dev) await runCommand(pmType, [installCommand, "-D", ...])
InstallDev(code) ==
  /\ inst.pc = "dev"
  /\ inst.dev # << >>
  /\ RunCommand(inst.pmType, devArgs(inst), code)
  /\ inst' = [inst EXCEPT !.pc = IF code = 0 THEN "returned" ELSE "catch"]
  /\ UNCHANGED <<fs, storeVars, sideVars, shad, console>>

SkipDev ==
  /\ inst.pc = "dev"
  /\ inst.dev = << >>
  /\ inst' = [inst EXCEPT !.pc = "returned"]
  /\ UNCHANGED <<fs, storeVars, sideVars, shad, calls, spawned, console>>

\* catch (error) { console.error(...) }
InstallCatch ==
  /\ inst.pc = "catch"
  /\ console' = Append(console, <<"An error occurred", Len(spawned)>>)
  /\ inst' = installPackagesCatch(inst)
  /\ UNCHANGED <<fs, storeVars, sideVars, shad, calls, spawned>>

\* the caller has the outcome and goes on: the call's record is dropped
InstallEnds ==
  /\ inst.pc \in {"returned", "threw"}
  /\ inst' = InstIdle
  /\ calls' = << >>
  /\ spawned' = << >>
  /\ console' = << >>
  /\ UNCHANGED <<fs, storeVars, sideVars, shad>>

Strings == SeqsUpTo(Chars, MaxStrLen)

\* some caller calls installPackages, with package lists out of S
CallInstallPackages(S) ==
  /\ NothingRunning
  /\ \E r \in S, d \in S, pm \in PMTypes :
       InstallPackages([regular |-> r, dev |-> d], pm)

InstallNext ==
  \/ CallInstallPackages(Strings)
  \/ \E code \in ExitCodes : InstallRegular(code)
  \/ SkipRegular
  \/ \E code \in ExitCodes : InstallDev(code)
  \/ SkipDev
  \/ InstallCatch
  \/ InstallEnds

----------------------------------------------------------------------------
(* shadcn-ui component installer *)

\* pmInstallCommand[preferredPackageManager]
pmInstallCommand(pm) ==
  CASE pm = Str("pnpm") -> "pnpm"
    [] pm = Str("npm")  -> "npx"
    [] pm = Str("yarn") -> "npx"
    [] pm = Str("bun")  -> "bunx"

\* the components whose .tsx file is not there yet, in the order given
componentsToInstall(f, components) ==
  LET hasSrc == Get(readConfigFile(f).obj, "hasSrc")
      prefix == IF Truthy(hasSrc) THEN "src/" ELSE ""
  IN SelectSeq(components, LAMBDA c : ~existsSync(f, uiPath(prefix, c)))

\* installArgs: "dlx" first for pnpm
installArgs(pm, toInstall) ==
  LET baseArgs == <<"shadcn-ui@latest", "add">> \o toInstall IN
  IF pm = Str("pnpm") THEN <<"dlx">> \o baseArgs ELSE baseArgs

\* the catch clause of installShadcnUIComponents
installShadcnCatch(sh) == [sh EXCEPT !.pc = "returned"]

\* installShadcnUIComponents(components) is called: up to the try.
\* Destructuring readConfigFile()'s null throws a TypeError.
InstallShadcnUIComponents(components) ==
  /\ NothingRunning
  /\ LET cfg       == readConfigFile(fs)
         toInstall == componentsToInstall(fs, components)
     IN shad' = IF cfg.null
                  THEN [ShadIdle EXCEPT !.pc = "threw"]
                  ELSE [pc |-> IF Len(toInstall) > 0 THEN "exec" ELSE "returned",
                        install |-> toInstall,
                        pm |-> Get(cfg.obj, "preferredPackageManager")]
  /\ calls' = << >>
  /\ spawned' = << >>
  /\ console' = << >>
  /\ UNCHANGED <<fs, storeVars, sideVars, inst>>

\* what a successful `shadcn-ui add` leaves behind: the components' files
shadcnAdds(f, toInstall) ==
  LET prefix == IF Truthy(Get(readConfigFile(f).obj, "hasSrc")) THEN "src/"
                                                                 ELSE ""
  IN [p \in Paths |->
        IF \E i \in 1..Len(toInstall) : p = uiPath(prefix, toInstall[i])
          THEN [exists |-> TRUE, content |-> <<"shadcn-ui component">>]
          ELSE f[p]]

\* await execa(pmInstallCommand[preferredPackageManager], installArgs)
ShadcnExec(code) ==
  /\ shad.pc = "exec"
  /\ spawned' = Append(spawned, [command |-> pmInstallCommand(shad.pm),
                                 args |-> installArgs(shad.pm, shad.install),
                                 code |-> code])
  /\ shad' = [shad EXCEPT !.pc = IF code = 0 THEN "returned" ELSE "catch"]
  /\ fs' = IF code = 0 THEN shadcnAdds(fs, shad.install) ELSE fs
  /\ UNCHANGED <<storeVars, sideVars, inst, calls, console>>

\* catch (error) { consola.error(...) }
ShadcnCatch ==
  /\ shad.pc = "catch"
  /\ console' = Append(console, <<"Failed to install components", Len(spawned)>>)
  /\ shad' = installShadcnCatch(shad)
  /\ UNCHANGED <<fs, storeVars, sideVars, inst, calls, spawned>>

ShadcnEnds ==
  /\ shad.pc \in {"returned", "threw"}
  /\ shad' = ShadIdle
  /\ calls' = << >>
  /\ spawned' = << >>
  /\ console' = << >>
  /\ UNCHANGED <<fs, storeVars, sideVars, inst>>

\* the configs the component installer is run on
ShadcnOptions == ObjectsOver({"hasSrc", "preferredPackageManager"})

ComponentLists == SeqsUpTo(Components, MaxComponents)

\* installPackages on short package lists, installShadcnUIComponents, and the
\* config the latter reads
NonFatalNext ==
  \/ NothingRunning /\ \E options \in ShadcnOptions : CreateConfigFile(options)
  \/ CallInstallPackages(SeqsUpTo(Chars, 1))
  \/ \E code \in ExitCodes : InstallRegular(code)
  \/ SkipRegular
  \/ \E code \in ExitCodes : InstallDev(code)
  \/ SkipDev
  \/ InstallCatch
  \/ InstallEnds
  \/ \E components \in ComponentLists : InstallShadcnUIComponents(components)
  \/ \E code \in ExitCodes : ShadcnExec(code)
  \/ ShadcnCatch
  \/ ShadcnEnds

----------------------------------------------------------------------------
(* File template generator *)

\* generateHelloWorldComponent(answer): the template around the name
generateHelloWorldComponent(answer) ==
  <<"interface ", answer, "Props { ... } const ", answer,
    ": React.FC<", answer, "Props> = ... export default ", answer, ";">>

\* a createHelloFile that writes whether or not the file is there
createHelloFile_overwrite(f, answer) ==
  createFile(f, layoutPath(answer), generateHelloWorldComponent(answer))

\* createHelloFile(answer): write the template unless the file exists
createHelloFile(f, answer) ==
  LET layoutExists == existsSync(f, layoutPath(answer)) IN
  IF ~layoutExists
    THEN createFile(f, layoutPath(answer), generateHelloWorldComponent(answer))
    ELSE f

\* createHelloFile(answer), consola.success included
CreateHelloFile(answer) ==
  /\ gen.successes < MaxCalls
  /\ fs' = createHelloFile(fs, answer)
  /\ gen' = [last |-> answer,
             wrote |-> fs' # fs,
             calls |-> [gen.calls EXCEPT ![answer] = @ + 1],
             successes |-> gen.successes + 1]
  /\ UNCHANGED <<storeVars, instVars, ev, posts>>

\* the generated files are the user's: the user writes one
UserWritesFile(answer) ==
  /\ fs[layoutPath(answer)] # [exists |-> TRUE, content |-> <<"user's text">>]
  /\ fs' = [fs EXCEPT ![layoutPath(answer)] =
                        [exists |-> TRUE, content |-> <<"user's text">>]]
  /\ UNCHANGED <<storeVars, instVars, sideVars>>

GenNext ==
  \/ \E answer \in Names : CreateHelloFile(answer)
  \/ \E answer \in Names : UserWritesFile(answer)

----------------------------------------------------------------------------
(* Analytics reporter *)

Events == {"init_config", "add_package", "generate"}

EvIdle == [pc |-> "idle", event |-> "init_config"]

\* sendEvent(event, data) is called: up to the try.  Reading .analytics of
\* readConfigFile()'s null throws a TypeError, which rejects the promise.
SendEvent(event) ==
  /\ NothingRunning
  /\ LET cfg == readConfigFile(fs) IN
     ev' = [pc |-> IF cfg.null THEN "threw"
                   ELSE IF Get(cfg.obj, "analytics") = JFalse THEN "returned"
                   ELSE "fetch",
            event |-> event]
  /\ posts' = << >>
  /\ UNCHANGED <<fs, storeVars, instVars, gen>>

\* await fetch(url + "/api/send-event", {method: "POST", ...}); a failure is
\* caught and the function returns
SendEventFetch(ok) ==
  /\ ev.pc = "fetch"
  /\ posts' = Append(posts, [event |-> ev.event,
                             config |-> readConfigFile(fs).obj,
                             ok |-> ok])
  /\ ev' = [ev EXCEPT !.pc = "returned"]
  /\ UNCHANGED <<fs, storeVars, instVars, gen>>

SendEventEnds ==
  /\ ev.pc \in {"returned", "threw"}
  /\ ev' = EvIdle
  /\ posts' = << >>
  /\ UNCHANGED <<fs, storeVars, instVars, gen>>

\* the configs the reporter is run on
EventOptions == ObjectsOver({"hasSrc", "analytics"})

EventNext ==
  \/ NothingRunning /\ \E options \in EventOptions : CreateConfigFile(options)
  \/ NothingRunning /\ \E options \in ObjectsOver({"analytics"}) :
                         UpdateConfigFile(options)
  \/ \E event \in Events : SendEvent(event)
  \/ \E ok \in BOOLEAN : SendEventFetch(ok)
  \/ SendEventEnds

----------------------------------------------------------------------------
(* Specifications *)

Init ==
  /\ fs = [p \in Paths |-> NoFile]
  /\ lastOp = Op("none", FALSE)
  /\ created = FALSE
  /\ written = NothingWritten
  /\ appended = FALSE
  /\ updates = "none"
  /\ inst = InstIdle
  /\ shad = ShadIdle
  /\ calls = << >>
  /\ spawned = << >>
  /\ console = << >>
  /\ gen = [last |-> "", wrote |-> FALSE, calls |-> [a \in Names |-> 0],
            successes |-> 0]
  /\ ev = EvIdle
  /\ posts = << >>

\* the config store
Next ==
  \/ \E options \in ConfigOptions : CreateConfigFile(options)
  \/ \E options \in UpdateOptions : UpdateConfigFile(options)
  \/ \E packageName \in PackageIds : AddPackageToConfig(packageName)
  \/ AddPackageToConfigThrows
  \/ UpdateConfigFileAfterUpdate
  \/ UpdateConfigFileAfterUpdateThrows

Spec == Init /\ [][Next]_vars

\* the package installer
SpecInstall == Init /\ [][InstallNext]_vars

\* the two installers that swallow a failed subprocess
SpecNonFatal == Init /\ [][NonFatalNext]_vars

\* the generator
SpecGen == Init /\ [][GenNext]_vars

\* the analytics reporter
SpecEvent == Init /\ [][EventNext]_vars

----------------------------------------------------------------------------
(* Config store: properties *)

config     == readConfigFile(fs)
configNext == readConfigFile(fs')

\* the keys of `written` that hold a value
WrittenKeys == {k \in ConfigKeys : written[k] # Undefined}

\* C1: without a config file readConfigFile() returns null; right after
\* createConfigFile(options) it returns an object that holds, for every key,
\* the value options holds for it (a key options leaves undefined is not
\* there), plus rootPath, "src/" when options.hasSrc is true and "" otherwise.
C1_ReadAfterCreate ==
  /\ ~existsSync(fs, ConfigPath) => config.null
  /\ lastOp.op = "createConfigFile" =>
       /\ ~config.null
       /\ DOMAIN config.obj = WrittenKeys \cup {"rootPath"}
       /\ \A k \in ConfigKeys : Get(config.obj, k) = written[k]
       /\ config.obj.rootPath =
            IF written["hasSrc"] = JTrue THEN Str("src/") ELSE Str("")

C1_Witness ==
  /\ lastOp.op = "createConfigFile"
  /\ Get(config.obj, "rootPath") = Str("src/")
  /\ Get(config.obj, "orm") = Undefined
  /\ Get(config.obj, "packages") = Arr(<<"next-auth", "drizzle">>)

\* C2: after createConfigFile and any sequence of updateConfigFile calls, the
\* config read back holds for every config key the value of the last call
\* that set the key, and the creation value for a key no update set.
C2_LastWriteWins ==
  created =>
    /\ ~config.null
    /\ DOMAIN config.obj = WrittenKeys \cup {"rootPath"}
    /\ \A k \in ConfigKeys : Get(config.obj, k) = written[k]

C2_Witness ==
  /\ created
  /\ updates = "more"
  /\ lastOp.op = "updateConfigFile"
  /\ config.obj = [hasSrc |-> JTrue, packages |-> Arr(<<"drizzle", "drizzle">>),
                   orm |-> Str("prisma"), rootPath |-> Str("src/")]

\* C3: addPackageToConfig(id) on a config whose packages are P leaves
\* packages = P followed by id, and every other field as it was.
C3_AppendsPackage ==
  [][lastOp' = Op("addPackageToConfig", FALSE) =>
       \A id \in PackageIds :
         AddPackageToConfig(id) =>
           /\ configNext.obj.packages =
                Arr(Append(Elems(config.obj.packages), id))
           /\ DOMAIN configNext.obj = DOMAIN config.obj
           /\ \A k \in DOMAIN config.obj \ {"packages"} :
                configNext.obj[k] = config.obj[k]]_vars

C3_Witness ==
  /\ lastOp = Op("addPackageToConfig", FALSE)
  /\ appended
  /\ Get(config.obj, "packages") = Arr(<<"next-auth", "next-auth">>)
  /\ Get(config.obj, "orm") = Str("prisma")

\* C4: after createConfigFile with a packages list without repeats, followed
\* only by addPackageToConfig and updateConfigFileAfterUpdate calls, packages
\* holds no identifier twice.
C4_PackagesDistinct ==
  (appended /\ IsArr(Get(config.obj, "packages")))
    => NoDup(Elems(config.obj.packages))

\* C9: updateConfigFileAfterUpdate backfills only what is absent: an absent
\* orm (auth) becomes "drizzle" ("next-auth") when packages holds it and null
\* otherwise; an orm or auth that was present keeps its value.
C9_BackfillsOnlyAbsent ==
  [][(lastOp' = Op("updateConfigFileAfterUpdate", FALSE)
        /\ UpdateConfigFileAfterUpdate) =>
       \A k \in {"orm", "auth"} :
         IF Get(config.obj, k) = Undefined
           THEN configNext.obj[k] = afterUpdateOptions(fs)[k]
           ELSE Get(configNext.obj, k) = config.obj[k]]_vars

\* C10: after createConfigFile and any sequence of updateConfigFile calls,
\* readConfigFile's rootPath is "src/" exactly when the hasSrc it returns is
\* truthy, and "" otherwise, whatever rootPath the file itself holds.
C10_RootPathFollowsHasSrc ==
  created =>
    config.obj.rootPath =
      IF Truthy(Get(config.obj, "hasSrc")) THEN Str("src/") ELSE Str("")

\* the file holds the rootPath of an earlier read, and hasSrc has changed since
C10_Witness ==
  /\ created
  /\ lastOp.op = "updateConfigFile"
  /\ Get(JSONparse(fs[ConfigPath].content), "rootPath") = Str("")
  /\ Get(config.obj, "hasSrc") = JTrue
  /\ Get(config.obj, "rootPath") = Str("src/")


----------------------------------------------------------------------------
(* Installers: properties *)

AllExitedZero == \A i \in 1..Len(spawned) : spawned[i].code = 0
SomeExitedNonZero == \E i \in 1..Len(spawned) : spawned[i].code # 0

IsPrefix(a, b) == Len(a) <= Len(b) /\ SubSeq(b, 1, Len(a)) = a

\* the runCommand invocations C5 lists: the regular one, then the dev one
ExpectedCalls(i) ==
  LET sub == IF i.pmType = "npm" THEN install ELSE add IN
  (IF Len(i.regular) > 0
     THEN << [command |-> i.pmType, args |-> <<sub>> \o split(i.regular)] >>
     ELSE << >>)
  \o
  (IF Len(i.dev) > 0
     THEN << [command |-> i.pmType, args |-> <<sub, dashD>> \o split(i.dev)] >>
     ELSE << >>)

\* C5: when every subprocess exits zero, installPackages issues exactly: one
\* runCommand for the regular list iff it is non-empty ("install" for npm,
\* "add" otherwise, then the space-split names), then one for the dev list
\* iff it is non-empty (same subcommand, "-D", the space-split names).
C5_InstallCalls ==
  (inst.pc # "idle" /\ AllExitedZero) =>
    /\ IsPrefix(calls, ExpectedCalls(inst))
    /\ (inst.pc = "dev") =>
         (Len(calls) = IF Len(inst.regular) > 0 THEN 1 ELSE 0)
    /\ (inst.pc = "returned") => (calls = ExpectedCalls(inst))

C5_Witness ==
  /\ inst.pc = "returned"
  /\ AllExitedZero
  /\ inst.pmType = "yarn"
  /\ inst.regular = <<"a", " ", "b">>
  /\ inst.dev = <<"b">>
  /\ Len(calls) = 2
  /\ calls[1].args = <<add, <<"a">>, <<"b">>>>
  /\ calls[2].args = <<add, dashD, <<"b">>>>

\* C7: a subprocess of installPackages or installShadcnUIComponents that exits
\* non-zero is caught and logged and the function completes normally.
C7_FailureNotFatal ==
  SomeExitedNonZero =>
    /\ inst.pc \in {"idle", "catch", "returned"}
    /\ shad.pc \in {"idle", "catch", "returned"}
    /\ (inst.pc = "returned" \/ shad.pc = "returned") => Len(console) = 1

C7_Witness ==
  /\ shad.pc = "returned"
  /\ SomeExitedNonZero
  /\ Len(console) = 1
  /\ shad.install = <<"card">>


\* both lists are given and the regular install has exited non-zero
RegularFailed ==
  /\ inst.pc # "idle"
  /\ Len(inst.regular) > 0
  /\ Len(inst.dev) > 0
  /\ Len(spawned) > 0
  /\ spawned[1].code # 0

\* C11: with both lists non-empty, a non-zero exit of the regular install
\* does not prevent the dev install: by the time installPackages returns the
\* dev runCommand invocation has been issued after the regular one.
C11_DevStillInstalled ==
  (RegularFailed /\ inst.pc = "returned") =>
    /\ Len(calls) = 2
    /\ calls[2] = [command |-> inst.pmType, args |-> devArgs(inst)]

\* C11 as the code has it: with both lists non-empty, a non-zero exit of the
\* regular install ends the try block: the regular runCommand invocation is
\* the only one, the error is logged and installPackages returns.
C11_DevSkippedAfterFailure ==
  RegularFailed =>
    /\ calls = << [command |-> inst.pmType, args |-> regularArgs(inst)] >>
    /\ Len(spawned) = 1
    /\ inst.pc \in {"catch", "returned"}
    /\ (inst.pc = "returned") => (Len(console) = 1)

C11_Witness ==
  /\ RegularFailed
  /\ inst.pc = "returned"
  /\ inst.regular = <<"a", " ", "b">>
  /\ inst.dev = <<"b">>
  /\ Len(calls) = 1
  /\ Len(console) = 1

----------------------------------------------------------------------------
(* Generator and analytics reporter: properties *)

Written(answer) ==
  [exists |-> TRUE, content |-> generateHelloWorldComponent(answer)]

\* C6: a createHelloFile call writes the target file only when the file does
\* not exist yet: then it writes the rendered template; on a file that exists
\* it changes nothing; either way the file exists afterwards (so every later
\* call with the name writes nothing) and the call reports success.
C6_WritesOnlyWhenAbsent ==
  [][gen' # gen =>
       LET p == layoutPath(gen'.last) IN
       /\ gen'.successes = gen.successes + 1
       /\ fs' = IF existsSync(fs, p) THEN fs
                                     ELSE [fs EXCEPT ![p] = Written(gen'.last)]
       /\ existsSync(fs', p)]_vars

\* the second call with a name, on the file the first call wrote
C6_Witness ==
  /\ gen.last = "Hello"
  /\ gen.calls["Hello"] = 2
  /\ gen.calls["Banner"] = 0
  /\ gen.successes = 2
  /\ ~gen.wrote
  /\ fs[layoutPath("Hello")] = Written("Hello")

\* C8: sendEvent never raises an error to its caller, whatever the config
\* file (absent, analytics true, false or unset) and the outcome of the
\* network call, and it makes no POST when analytics is false.
C8_TelemetryNeverThrows ==
  /\ ev.pc # "threw"
  /\ (~config.null /\ Get(config.obj, "analytics") = JFalse) => posts = << >>

\* what does hold: with a config file, sendEvent returns and posts at most once
C8_Witness ==
  /\ ev.pc = "returned"
  /\ Len(posts) = 1
  /\ ~posts[1].ok

====
